---- MODULE Spec2Model ----
(***************************************************************************)
(* readme-gen: a walk over a repository (explorer.rs), the flattening of   *)
(* the walk's result into a prompt (summarizer.rs), the text-generation    *)
(* request (llm.rs) and the write of README.md (main.rs).                  *)
(*                                                                         *)
(* Strings whose characters the code inspects (file names, extensions,     *)
(* language tags) are sequences of one-character strings, so that          *)
(* starts_with, extension() and == are computed as the code computes them. *)
(* An Option<T> is a sequence of length 0 (None) or 1 (Some).              *)
(***************************************************************************)
EXTENDS Integers, Sequences, FiniteSets, TLC

\* ------------------------------------------------------------------ bounds
\* Entries the directory iterator yields below the root.
MaxEntries == 3
\* Deepest level below the root the iterator descends to.
MaxDepth == 2

\* ------------------------------------------------------------------- names
S_dot == <<".">>
S_dotdot == <<".", ".">>
S_repo == <<"r", "e", "p", "o">>
S_src == <<"s", "r", "c">>
S_git == <<".", "g", "i", "t">>
S_target == <<"t", "a", "r", "g", "e", "t">>
S_node_modules == <<"n", "o", "d", "e", "_", "m", "o", "d", "u", "l", "e", "s">>
S_venv == <<"v", "e", "n", "v">>
S_pycache == <<"_", "_", "p", "y", "c", "a", "c", "h", "e", "_", "_">>
S_main_rs == <<"m", "a", "i", "n", ".", "r", "s">>
S_lib_rs == <<"l", "i", "b", ".", "r", "s">>
S_cargo_toml == <<"C", "a", "r", "g", "o", ".", "t", "o", "m", "l">>
S_notes_md == <<"n", "o", "t", "e", "s", ".", "m", "d">>
S_license == <<"L", "I", "C", "E", "N", "S", "E">>
S_env == <<".", "e", "n", "v">>
S_link == <<"l", "i", "n", "k">>
S_rs == <<"r", "s">>
S_Rust == <<"R", "u", "s", "t">>

None == <<>>
Some(x) == <<x>>

\* ----------------------------------------------------------------- helpers

\* The index of the last '.' of s, 0 when s holds none.
LastDot(s) ==
    LET dots == {i \in 1..Len(s) : s[i] = "."}
    IN  IF dots = {} THEN 0 ELSE CHOOSE i \in dots : \A j \in dots : j <= i

\* Path::file_name of an entry's path: None when the path ends in "." or "..".
PathFileName(name) ==
    IF name = S_dot \/ name = S_dotdot THEN None ELSE Some(name)

\* entry.path().extension(): the part of the file name after its last '.',
\* None when there is no file name, no '.', or the only '.' is the first
\* character.
PathExtension(name) ==
    IF PathFileName(name) = None THEN None
    ELSE IF LastDot(name) <= 1 THEN None
    ELSE Some(SubSeq(name, LastDot(name) + 1, Len(name)))

invalid == {S_target, S_node_modules, S_venv, S_pycache}

\* invalid_path: the entry's own name starts with "." or is in the list.
invalid_path(entry) ==
    (Len(entry.name) >= 1 /\ entry.name[1] = ".") \/ entry.name \in invalid

is_cargo_toml(entry) == entry.name = S_cargo_toml

map_extension_to_language(ext) == IF ext = S_rs THEN S_Rust ELSE ext

\* *map.entry(key).or_insert(0) += 1
IncrementCount(map, key) ==
    [k \in DOMAIN map \cup {key} |->
        IF k = key
        THEN (IF key \in DOMAIN map THEN map[key] ELSE 0) + 1
        ELSE map[k]]

\* HashMap::insert: a later value replaces an earlier one under the same key.
MapInsert(map, key, val) ==
    [k \in DOMAIN map \cup {key} |-> IF k = key THEN val ELSE map[k]]

EmptyMap == [k \in {} |-> 0]

RECURSIVE SumValues(_)
SumValues(map) ==
    IF DOMAIN map = {} THEN 0
    ELSE LET k == CHOOSE x \in DOMAIN map : TRUE
         IN  map[k] + SumValues([x \in DOMAIN map \ {k} |-> map[x]])

Range(s) == {s[i] : i \in DOMAIN s}

\* ------------------------------------------------------- syntax trees (syn)
\* One syn::Item.  kind is the Item variant; inner holds the items declared
\* inside it (a function's body, an impl block, an inline module).
Item(kind, ident, vis, inputs, output, fields, variants, inner) ==
    [kind |-> kind, ident |-> ident, vis |-> vis, inputs |-> inputs,
     output |-> output, fields |-> fields, variants |-> variants,
     inner |-> inner]

NoFields == [style |-> "Unit", named |-> <<>>, unnamed |-> <<>>]
NamedFields(names) == [style |-> "Named", named |-> names, unnamed |-> <<>>]
UnnamedFields(types) == [style |-> "Unnamed", named |-> <<>>, unnamed |-> types]

Receiver == [receiver |-> TRUE, pat |-> "", ty |-> ""]
Typed(pat, ty) == [receiver |-> FALSE, pat |-> pat, ty |-> ty]

ItemFn(ident, vis, inputs, output, inner) ==
    Item("Fn", ident, vis, inputs, output, NoFields, <<>>, inner)
ItemConst(ident) == Item("Const", ident, "Inherited", <<>>, None, NoFields, <<>>, <<>>)
ItemStatic(ident) == Item("Static", ident, "Inherited", <<>>, None, NoFields, <<>>, <<>>)
ItemEnum(ident, variants) ==
    Item("Enum", ident, "Inherited", <<>>, None, NoFields, variants, <<>>)
ItemStruct(ident, fields) ==
    Item("Struct", ident, "Inherited", <<>>, None, fields, <<>>, <<>>)
ItemImpl(ident, inner) == Item("Impl", ident, "Inherited", <<>>, None, NoFields, <<>>, inner)
ItemMod(ident, inner) == Item("Mod", ident, "Inherited", <<>>, None, NoFields, <<>>, inner)
ItemUse(ident) == Item("Use", ident, "Inherited", <<>>, None, NoFields, <<>>, <<>>)

\* pub fn main() {} const MAX..; struct Point { x, y } enum Color { Red, Green }
\* static COUNT..; struct Wrapper(u8, String);
SrcFlat ==
    << ItemFn("main", "Public", <<>>, None, <<>>),
       ItemConst("MAX"),
       ItemStruct("Point", NamedFields(<<"x", "y">>)),
       ItemEnum("Color", <<"Red", "Green">>),
       ItemStatic("COUNT"),
       ItemStruct("Wrapper", UnnamedFields(<<"u8", "String">>)) >>

\* fn outer(a: u8) -> u8 { fn inner() {} struct Local; const K..; }
\* impl Point { pub fn new(&self) -> Point {} const ORIGIN..; }
\* mod m { fn hidden() {} enum E { A } static S..; struct Deep; }
\* use std::io; fn outer() {}   (a second outer: the later one replaces it)
SrcNested ==
    << ItemFn("outer", "Inherited", <<Typed("a", "u8")>>, Some("u8"),
              << ItemFn("inner", "Inherited", <<>>, None, <<>>),
                 ItemStruct("Local", NoFields),
                 ItemConst("K") >>),
       ItemImpl("Point",
              << ItemFn("new", "Public", <<Receiver>>, Some("Point"), <<>>),
                 ItemConst("ORIGIN") >>),
       ItemMod("m",
              << ItemFn("hidden", "Inherited", <<>>, None, <<>>),
                 ItemEnum("E", <<"A">>),
                 ItemStatic("S"),
                 ItemStruct("Deep", NoFields) >>),
       ItemUse("io"),
       ItemFn("outer", "Public", <<>>, None, <<>>) >>

\* ------------------------------------------------------------ file contents
\* What reading and parsing a file gives: readable (fs::read_to_string /
\* File::open succeed), parses (syn::parse_str / toml::from_str succeed), and
\* the parsed value.
NoCargo == [package |-> None, dependencies |-> None, dev_dependencies |-> None]

Content(readable, parses, items, cargo) ==
    [readable |-> readable, parses |-> parses, items |-> items, cargo |-> cargo]

Opaque == Content(TRUE, FALSE, <<>>, NoCargo)
Unreadable == Content(FALSE, FALSE, <<>>, NoCargo)
Malformed == Content(TRUE, FALSE, <<>>, NoCargo)
Source(items) == Content(TRUE, TRUE, items, NoCargo)
Manifest(cargo) == Content(TRUE, TRUE, <<>>, cargo)

CargoFull ==
    [package |-> Some([name |-> "readme-gen", version |-> "0.1.0",
                       description |-> None]),
     dependencies |-> Some({"serde", "syn"}),
     dev_dependencies |-> None]

\* ------------------------------------------------- explorer.rs: the parsers
Ok(v) == [ok |-> TRUE, err |-> "", value |-> v]
Err(e) == [ok |-> FALSE, err |-> e, value |-> <<>>]

\* CargoToml::parse (with the File::open before it): reading fails with an
\* Io error, toml::from_str with a Toml error, both propagated by `?`.
CargoToml_parse(content) ==
    IF ~content.readable THEN Err("Io")
    ELSE IF ~content.parses THEN Err("Toml")
    ELSE Ok(content.cargo)

FileInformation_new(file_name) ==
    [file_name |-> file_name, structs |-> EmptyMap, functions |-> EmptyMap,
     variables |-> <<>>, enums |-> EmptyMap, others |-> <<>>]

FunctionMeta_new(params, visibility, returns) ==
    [params |-> params, returns |-> returns, visibility |-> visibility]

\* format!("{} : {}", pat, ty), or "self" for a receiver.
ParamString(p) == IF p.receiver THEN <<"self">> ELSE <<p.pat, " : ", p.ty>>

\* The fields of a struct: the idents of named fields, format!("field{}: {}",
\* i, type) with i from 0 for unnamed ones, nothing for a unit struct.
StructFields(fields) ==
    CASE fields.style = "Named" ->
           [i \in DOMAIN fields.named |-> <<fields.named[i]>>]
      [] fields.style = "Unnamed" ->
           [i \in DOMAIN fields.unnamed |-> <<"field", i - 1, ": ", fields.unnamed[i]>>]
      [] OTHER -> <<>>

\* One arm of the match on an item.
VisitItem(info, item) ==
    CASE item.kind = "Fn" ->
           [info EXCEPT !.functions = MapInsert(@, item.ident,
               FunctionMeta_new(
                   [i \in DOMAIN item.inputs |-> ParamString(item.inputs[i])],
                   IF item.vis = "Public" THEN "public" ELSE "private",
                   IF item.output = None THEN "None" ELSE item.output[1]))]
      [] item.kind = "Const" ->
           [info EXCEPT !.variables = Append(@, item.ident)]
      [] item.kind = "Enum" ->
           [info EXCEPT !.enums = MapInsert(@, item.ident, item.variants)]
      [] item.kind = "Struct" ->
           [info EXCEPT !.structs = MapInsert(@, item.ident, StructFields(item.fields))]
      [] item.kind = "Static" ->
           [info EXCEPT !.variables = Append(@, item.ident)]
      [] OTHER -> info

RECURSIVE Flatten(_)
\* Every item of a tree, the nested ones after the item that holds them.
Flatten(items) ==
    IF items = <<>> THEN <<>>
    ELSE <<Head(items)>> \o Flatten(Head(items).inner) \o Flatten(Tail(items))

\* A walk of the tree that also descends into bodies, impls and modules.
ItemsToVisit_Nested(syntax_tree) == Flatten(syntax_tree)

\* `for item in syntax_tree.items`: the items of the file itself.
ItemsToVisit(syntax_tree) == syntax_tree

RECURSIVE VisitItems(_, _)
VisitItems(info, items) ==
    IF items = <<>> THEN info
    ELSE VisitItems(VisitItem(info, Head(items)), Tail(items))

parse_rust_file(entry) ==
    IF PathFileName(entry.name) = None THEN Err("Io")
    ELSE IF ~entry.content.readable THEN Err("Io")
    ELSE IF ~entry.content.parses THEN Err("Syn")
    ELSE Ok(VisitItems(FileInformation_new(entry.name),
                       ItemsToVisit(entry.content.items)))

RepoCodeContext_new(repo_name) ==
    [repo_name |-> repo_name, folders |-> <<>>, languages |-> EmptyMap,
     files |-> <<>>, dependencies |-> <<>>]

\* ------------------------------------------------------- the file system
\* What the directory iterator can yield: a name, a file type, the contents.
Template(name, kind, content) == [name |-> name, kind |-> kind, content |-> content]

DirTemplates ==
    { Template(S_src, "dir", Opaque),
      Template(S_git, "dir", Opaque),
      Template(S_target, "dir", Opaque) }

FileTemplates ==
    { Template(S_main_rs, "file", Source(SrcFlat)),
      Template(S_main_rs, "file", Source(SrcNested)),
      Template(S_main_rs, "file", Malformed),
      Template(S_main_rs, "file", Unreadable),
      Template(S_lib_rs, "file", Source(SrcNested)),
      Template(S_cargo_toml, "file", Manifest(CargoFull)),
      Template(S_cargo_toml, "file", Manifest(NoCargo)),
      Template(S_cargo_toml, "file", Malformed),
      Template(S_cargo_toml, "file", Unreadable),
      Template(S_notes_md, "file", Opaque),
      Template(S_license, "file", Opaque),
      Template(S_env, "file", Opaque) }

OtherTemplates == { Template(S_link, "symlink", Opaque) }

Templates == DirTemplates \cup FileTemplates \cup OtherTemplates

\* The root path given on the command line: a directory, a file, or nothing.
RootTemplates ==
    { Template(S_repo, "dir", Opaque),
      Template(S_dot, "dir", Opaque),
      Template(S_repo, "missing", Opaque),
      Template(S_main_rs, "file", Source(SrcFlat)),
      Template(S_license, "file", Opaque) }

DirEntry(t, depth, parent) ==
    [name |-> t.name, kind |-> t.kind, content |-> t.content,
     depth |-> depth, parent |-> parent]

\* The entry a new entry at `depth` hangs under: the last one yielded one
\* level up.
ParentAt(es, depth) ==
    LET up == {j \in DOMAIN es : es[j].depth = depth - 1}
    IN  CHOOSE j \in up : \A k \in up : k <= j

\* A depth-first walk can yield an entry at `depth` next: one level below
\* the last entry when that is a directory, else at its level or above.
CanFollow(es, depth) ==
    /\ depth >= 1
    /\ depth <= MaxDepth
    /\ depth <= es[Len(es)].depth + (IF es[Len(es)].kind = "dir" THEN 1 ELSE 0)

\* ------------------------------------------------------------------ state
VARIABLES
    pc,            \* where the program stands
    hasArg,        \* a folder path was given on the command line
    hasKey,        \* GEMINI_API_KEY is set
    root,          \* the root path: what lies there
    entries,       \* the entries the directory iterator has yielded, in order
    cur,           \* the index in entries of the loop's current entry
    repo,          \* walk_repo's RepoCodeContext
    counted,       \* indices of the entries that incremented repo.languages
    listed,        \* indices of the entries pushed to repo.folders
    walkResult,    \* "none" while walking, then "Ok" or "Err"
    prompt,        \* Option: the LLMInput build_input returned
    response,      \* Option: the decoded GeminiResponse
    markdown,      \* Option: markdown_content in main
    readme,        \* README.md on disk
    readmeWrites,  \* calls of fs::write("README.md", ..)
    exit           \* how main ended, "" while it runs

vars == <<pc, hasArg, hasKey, root, entries, cur, repo, counted, listed,
          walkResult, prompt, response, markdown, readme, readmeWrites, exit>>

walkVars == <<root, entries, cur, repo, counted, listed, walkResult>>
llmVars == <<prompt, response, markdown>>
diskVars == <<readme, readmeWrites>>
envVars == <<hasArg, hasKey>>

OldReadme == [exists |-> TRUE, content |-> "old"]
NoReadme == [exists |-> FALSE, content |-> ""]

Init ==
    /\ pc = "main"
    /\ hasArg \in BOOLEAN
    /\ hasKey \in BOOLEAN
    /\ root = None
    /\ entries = <<>>
    /\ cur = 0
    /\ repo = RepoCodeContext_new(<<>>)
    /\ counted = {}
    /\ listed = {}
    /\ walkResult = "none"
    /\ prompt = None
    /\ response = None
    /\ markdown = None
    /\ readme \in {OldReadme, NoReadme}
    /\ readmeWrites = 0
    /\ exit = ""

\* ------------------------------------------------------------- main.rs
\* args.len() < 2: the usage line, return Ok(()).
MainUsage ==
    /\ pc = "main"
    /\ ~hasArg
    /\ pc' = "exit"
    /\ exit' = "usage"
    /\ UNCHANGED <<envVars, walkVars, llmVars, diskVars>>

\* main calls llm::generate_md(folder_path).
MainCall ==
    /\ pc = "main"
    /\ hasArg
    /\ pc' = "generate_md"
    /\ UNCHANGED <<envVars, walkVars, llmVars, diskVars, exit>>

\* ---------------------------------------------------------------- llm.rs
\* env::var("GEMINI_API_KEY").expect(..) panics when the variable is not set.
ApiKeyMissing ==
    /\ pc = "generate_md"
    /\ ~hasKey
    /\ pc' = "exit"
    /\ exit' = "panic_api_key"
    /\ UNCHANGED <<envVars, walkVars, llmVars, diskVars>>

\* With the key, load_summarizer -> build_input -> walk_repo: the repo_name
\* and the empty RepoCodeContext.
WalkBegin ==
    /\ pc = "generate_md"
    /\ hasKey
    /\ \E t \in RootTemplates :
          /\ root' = Some(t)
          /\ repo' = RepoCodeContext_new(
                        IF PathFileName(t.name) = None THEN <<>> ELSE t.name)
    /\ pc' = "iter"
    /\ UNCHANGED <<envVars, entries, cur, counted, listed, walkResult,
                   llmVars, diskVars, exit>>

\* ------------------------------------------------- explorer.rs: walk_repo
\* WalkDir yields the root first.  A root that does not exist yields an
\* error, which filter_map(Result::ok) drops: the loop then has no entry.
IterRoot ==
    /\ pc = "iter"
    /\ entries = <<>>
    /\ root[1].kind # "missing"
    /\ entries' = <<DirEntry(root[1], 0, 0)>>
    /\ cur' = 1
    /\ pc' = "entry"
    /\ UNCHANGED <<envVars, root, repo, counted, listed, walkResult,
                   llmVars, diskVars, exit>>

\* The next entry below a root directory, in depth-first order.  Nothing
\* stops the iterator from descending into any directory: the loop filters
\* the entries it is given, one by one.  Names are unique in a directory.
IterNext ==
    /\ pc = "iter"
    /\ entries # <<>>
    /\ entries[1].kind = "dir"
    /\ Len(entries) <= MaxEntries
    /\ \E t \in Templates, depth \in 1..MaxDepth :
          /\ CanFollow(entries, depth)
          /\ \A j \in DOMAIN entries :
                entries[j].parent = ParentAt(entries, depth) => entries[j].name # t.name
          /\ entries' = Append(entries, DirEntry(t, depth, ParentAt(entries, depth)))
    /\ cur' = Len(entries) + 1
    /\ pc' = "entry"
    /\ UNCHANGED <<envVars, root, repo, counted, listed, walkResult,
                   llmVars, diskVars, exit>>

\* The iterator is exhausted: Ok(repo).
IterEnd ==
    /\ pc = "iter"
    /\ entries = <<>> => root[1].kind = "missing"
    /\ walkResult' = "Ok"
    /\ pc' = "walk_done"
    /\ UNCHANGED <<envVars, root, entries, cur, repo, counted, listed,
                   llmVars, diskVars, exit>>

IsVisitedFile(entry) == entry.kind = "file" /\ ~invalid_path(entry)
IsVisitedDir(entry) == ~IsVisitedFile(entry) /\ entry.kind = "dir" /\ ~invalid_path(entry)

\* A file that passes the filter and has an extension: its language is
\* counted, then the manifest test is made.
VisitFile ==
    /\ pc = "entry"
    /\ IsVisitedFile(entries[cur])
    /\ PathExtension(entries[cur].name) # None
    /\ repo' = [repo EXCEPT !.languages = IncrementCount(@,
                   map_extension_to_language(PathExtension(entries[cur].name)[1]))]
    /\ counted' = counted \cup {cur}
    /\ pc' = IF is_cargo_toml(entries[cur]) THEN "manifest" ELSE "source"
    /\ UNCHANGED <<envVars, root, entries, cur, listed, walkResult,
                   llmVars, diskVars, exit>>

\* A file that passes the filter and has no extension.
VisitFileNoExt ==
    /\ pc = "entry"
    /\ IsVisitedFile(entries[cur])
    /\ PathExtension(entries[cur].name) = None
    /\ pc' = "iter"
    /\ UNCHANGED <<envVars, walkVars, llmVars, diskVars, exit>>

\* A directory that passes the filter: its name is pushed to folders.
VisitDir ==
    /\ pc = "entry"
    /\ IsVisitedDir(entries[cur])
    /\ IF PathFileName(entries[cur].name) # None
       THEN /\ repo' = [repo EXCEPT !.folders = Append(@, entries[cur].name)]
            /\ listed' = listed \cup {cur}
       ELSE UNCHANGED <<repo, listed>>
    /\ pc' = "iter"
    /\ UNCHANGED <<envVars, root, entries, cur, counted, walkResult,
                   llmVars, diskVars, exit>>

\* An entry the filter rejects, or one that is neither file nor directory.
SkipEntry ==
    /\ pc = "entry"
    /\ ~IsVisitedFile(entries[cur])
    /\ ~IsVisitedDir(entries[cur])
    /\ pc' = "iter"
    /\ UNCHANGED <<envVars, walkVars, llmVars, diskVars, exit>>

\* Cargo.toml opened and parsed: pushed to dependencies; control then goes
\* on to the `if ext == "rs"` that follows.
ManifestOk ==
    /\ pc = "manifest"
    /\ CargoToml_parse(entries[cur].content).ok
    /\ repo' = [repo EXCEPT !.dependencies =
                   Append(@, CargoToml_parse(entries[cur].content).value)]
    /\ pc' = "source"
    /\ UNCHANGED <<envVars, root, entries, cur, counted, listed, walkResult,
                   llmVars, diskVars, exit>>

\* File::open or CargoToml::parse failed: `?` returns the error.
ManifestErr ==
    /\ pc = "manifest"
    /\ ~CargoToml_parse(entries[cur].content).ok
    /\ walkResult' = "Err"
    /\ pc' = "walk_done"
    /\ UNCHANGED <<envVars, root, entries, cur, repo, counted, listed,
                   llmVars, diskVars, exit>>

\* ext == "rs" and the file parses: its FileInformation is pushed to files.
SourceOk ==
    /\ pc = "source"
    /\ PathExtension(entries[cur].name)[1] = S_rs
    /\ parse_rust_file(entries[cur]).ok
    /\ repo' = [repo EXCEPT !.files = Append(@, parse_rust_file(entries[cur]).value)]
    /\ pc' = "iter"
    /\ UNCHANGED <<envVars, root, entries, cur, counted, listed, walkResult,
                   llmVars, diskVars, exit>>

\* ext == "rs" and the file cannot be read or parsed: `?` returns the error.
SourceErr ==
    /\ pc = "source"
    /\ PathExtension(entries[cur].name)[1] = S_rs
    /\ ~parse_rust_file(entries[cur]).ok
    /\ walkResult' = "Err"
    /\ pc' = "walk_done"
    /\ UNCHANGED <<envVars, root, entries, cur, repo, counted, listed,
                   llmVars, diskVars, exit>>

\* Any other extension: todo!() panics, and the panic ends the process.
SourceTodo ==
    /\ pc = "source"
    /\ PathExtension(entries[cur].name)[1] # S_rs
    /\ pc' = "exit"
    /\ exit' = "panic_todo"
    /\ UNCHANGED <<envVars, walkVars, llmVars, diskVars>>

\* ----------------------------------------------------------- summarizer.rs
\* "name (params: [..], returns: .., visibility: ..)" for each function.  The
\* code joins these in the HashMap's iteration order, which is unspecified:
\* the joined lists of map keys are kept as sets.
FunctionsDetail(file) ==
    { <<name, file.functions[name].params, file.functions[name].returns,
        file.functions[name].visibility>> : name \in DOMAIN file.functions }

FileDetails(file) ==
    [file |-> file.file_name, functions |-> FunctionsDetail(file),
     structs |-> DOMAIN file.structs, variables |-> file.variables,
     enums |-> DOMAIN file.enums]

\* The "Package: ..", "Dependency: .." and "Dev Dependency: .." strings of
\* one Cargo.toml.
CargoDeps(cargo) ==
    [package |-> IF cargo.package = None THEN None
                 ELSE Some(<<cargo.package[1].name, cargo.package[1].version,
                             cargo.package[1].description>>),
     dependencies |-> IF cargo.dependencies = None THEN {} ELSE cargo.dependencies[1],
     dev_dependencies |->
         IF cargo.dev_dependencies = None THEN {} ELSE cargo.dev_dependencies[1]]

\* build_input's LLMInput, from the model walk_repo returned.
LLMInput(r) ==
    [project_name |-> r.repo_name,
     project_language |-> {<<lang, r.languages[lang]>> : lang \in DOMAIN r.languages},
     project_structure |->
         <<[folders |-> r.folders]>> \o [i \in DOMAIN r.files |-> FileDetails(r.files[i])],
     project_dependencies |->
         [i \in DOMAIN r.dependencies |-> CargoDeps(r.dependencies[i])]]

\* walk_repo returned an error: build_input's `?` passes it on, load_summarizer
\* prints it, generate_md returns "Failed to generate prompt from summarizer"
\* and main's `?` returns that.
LoadSummarizerErr ==
    /\ pc = "walk_done"
    /\ walkResult = "Err"
    /\ pc' = "exit"
    /\ exit' = "prompt_err"
    /\ UNCHANGED <<envVars, walkVars, llmVars, diskVars>>

\* walk_repo returned the model: build_input flattens and serializes it.
BuildInput ==
    /\ pc = "walk_done"
    /\ walkResult = "Ok"
    /\ prompt' = Some(LLMInput(repo))
    /\ pc' = "send"
    /\ UNCHANGED <<envVars, walkVars, response, markdown, diskVars, exit>>

\* ---------------------------------------------------------------- llm.rs
\* What the API can answer, once decoded: candidates, each with its parts.
Candidate(parts) == [content |-> [parts |-> parts]]

Responses ==
    { [candidates |-> <<>>],
      [candidates |-> <<Candidate(<<>>)>>],
      [candidates |-> <<Candidate(<<>>), Candidate(<<"# late">>)>>],
      [candidates |-> <<Candidate(<<"">>)>>],
      [candidates |-> <<Candidate(<<"# readme", "more">>)>>] }

\* candidates.first().and_then(|c| c.content.parts.first()), as an Option of
\* the part's text, with every missing piece defaulted to the empty text.
FirstPart_Defaulted(r) ==
    IF r.candidates = <<>> \/ r.candidates[1].content.parts = <<>>
    THEN Some("")
    ELSE Some(r.candidates[1].content.parts[1])

\* candidates.first().and_then(|c| c.content.parts.first()), as an Option of
\* the part's text.
FirstPart(r) ==
    IF r.candidates = <<>> THEN None
    ELSE IF r.candidates[1].content.parts = <<>> THEN None
    ELSE Some(r.candidates[1].content.parts[1])

\* client.post(..).json(..).send().await succeeded.
SendOk ==
    /\ pc = "send"
    /\ pc' = "decode"
    /\ UNCHANGED <<envVars, walkVars, llmVars, diskVars, exit>>

\* The request failed: `?` returns the error, and main's `?` after it.
SendErr ==
    /\ pc = "send"
    /\ pc' = "exit"
    /\ exit' = "request_err"
    /\ UNCHANGED <<envVars, walkVars, llmVars, diskVars>>

\* response.json().await gave a GeminiResponse.
DecodeOk ==
    /\ pc = "decode"
    /\ \E r \in Responses : response' = Some(r)
    /\ pc' = "candidates"
    /\ UNCHANGED <<envVars, walkVars, prompt, markdown, diskVars, exit>>

\* The body is no GeminiResponse: `?` returns the error.
DecodeErr ==
    /\ pc = "decode"
    /\ pc' = "exit"
    /\ exit' = "decode_err"
    /\ UNCHANGED <<envVars, walkVars, llmVars, diskVars>>

\* The first candidate's first part: Ok(part.text.clone()), back in main.
GotContent ==
    /\ pc = "candidates"
    /\ FirstPart(response[1]) # None
    /\ markdown' = FirstPart(response[1])
    /\ pc' = "write"
    /\ UNCHANGED <<envVars, walkVars, prompt, response, diskVars, exit>>

\* No candidate or no part: Err("No markdown content generated").
NoContent ==
    /\ pc = "candidates"
    /\ FirstPart(response[1]) = None
    /\ pc' = "exit"
    /\ exit' = "empty_response"
    /\ UNCHANGED <<envVars, walkVars, llmVars, diskVars>>

\* ---------------------------------------------------------------- main.rs
\* std::fs::write("README.md", &markdown_content) succeeded.
WriteOk ==
    /\ pc = "write"
    /\ readme' = [exists |-> TRUE, content |-> markdown[1]]
    /\ readmeWrites' = readmeWrites + 1
    /\ pc' = "println"
    /\ UNCHANGED <<envVars, walkVars, llmVars, exit>>

\* std::fs::write failed, before it created the file or after it truncated
\* it: `?` returns the error.
WriteErr ==
    /\ pc = "write"
    /\ readme' \in {readme, [exists |-> TRUE, content |-> ""]}
    /\ readmeWrites' = readmeWrites + 1
    /\ pc' = "exit"
    /\ exit' = "write_err"
    /\ UNCHANGED <<envVars, walkVars, llmVars>>

\* println! wrote to stdout: Ok(()).
PrintOk ==
    /\ pc = "println"
    /\ pc' = "exit"
    /\ exit' = "ok"
    /\ UNCHANGED <<envVars, walkVars, llmVars, diskVars>>

\* println! panics when the write to stdout fails.
PrintPanic ==
    /\ pc = "println"
    /\ pc' = "exit"
    /\ exit' = "panic_println"
    /\ UNCHANGED <<envVars, walkVars, llmVars, diskVars>>

\* ------------------------------------------------------------------ system
Next ==
    \/ MainUsage
    \/ MainCall
    \/ ApiKeyMissing
    \/ WalkBegin
    \/ IterRoot
    \/ IterNext
    \/ IterEnd
    \/ VisitFile
    \/ VisitFileNoExt
    \/ VisitDir
    \/ SkipEntry
    \/ ManifestOk
    \/ ManifestErr
    \/ SourceOk
    \/ SourceErr
    \/ SourceTodo
    \/ LoadSummarizerErr
    \/ BuildInput
    \/ SendOk
    \/ SendErr
    \/ DecodeOk
    \/ DecodeErr
    \/ GotContent
    \/ NoContent
    \/ WriteOk
    \/ WriteErr
    \/ PrintOk
    \/ PrintPanic

Spec == Init /\ [][Next]_vars

\* ------------------------------------------------------ terms of the claims
RECURSIVE Ancestors(_)
\* The directories above entry i, the root (index 1) included.
Ancestors(i) ==
    IF entries[i].parent = 0 THEN {}
    ELSE {entries[i].parent} \cup Ancestors(entries[i].parent)

\* The excluded directories entry i lies beneath; the root the scan was
\* asked to walk is not one of them.
ExcludedAncestors(i) ==
    {j \in Ancestors(i) : j # 1 /\ invalid_path(entries[j])}

\* Entry i survives the path filter: its own name and every directory above
\* it are not excluded.
Survives(i) == ~invalid_path(entries[i]) /\ ExcludedAncestors(i) = {}

HasExtension(i) == PathExtension(entries[i].name) # None
IsRustFile(i) == HasExtension(i) /\ PathExtension(entries[i].name)[1] = S_rs

\* The loop is past the manifest block for entry i, or left it with an error.
ManifestStepDone(i) == i < cur \/ (i = cur /\ pc \notin {"entry", "manifest"})

\* The loop is past the source block for entry i, or left the loop at
\* entry i with an error or a panic.
SourceStepDone(i) == i < cur \/ (i = cur /\ pc \notin {"entry", "manifest", "source"})

RECURSIVE Ascending(_)
\* The members of a set of indices, in increasing order.
Ascending(S) ==
    IF S = {} THEN <<>>
    ELSE LET m == CHOOSE x \in S : \A y \in S : x <= y
         IN  <<m>> \o Ascending(S \ {m})

\* The entries whose source was read and parsed, in traversal order.
Analyzed ==
    Ascending({i \in counted : /\ IsRustFile(i)
                               /\ SourceStepDone(i)
                               /\ entries[i].content.readable
                               /\ entries[i].content.parses})

TopLevelNames(items, kinds) ==
    {items[j].ident : j \in {n \in DOMAIN items : items[n].kind \in kinds}}

\* Names declared somewhere in the tree but not at its top level.
NestedOnlyNames(items, kinds) ==
    TopLevelNames(Flatten(items), kinds) \ TopLevelNames(items, kinds)

RecordNames(info) ==
    DOMAIN info.functions \cup DOMAIN info.structs \cup DOMAIN info.enums
        \cup Range(info.variables)

DeclKinds == {"Fn", "Struct", "Enum", "Const", "Static"}

\* ------------------------------------------------------------------ claims

\* C1: after walk_repo returns a model, no entry beneath an excluded
\* directory has been pushed to folders or has incremented languages.
C1_ExcludedSubtreeContributesNothing ==
    walkResult = "Ok" =>
        \A i \in DOMAIN entries :
            ExcludedAncestors(i) # {} => i \notin counted /\ i \notin listed

\* C2: a Cargo.toml that cannot be read or parsed does not abort the scan:
\* once the loop is past it, walk_repo has not returned an error and a
\* record for it stands in dependencies.
C2_BadManifestDoesNotAbort ==
    \A i \in counted :
        ( /\ is_cargo_toml(entries[i])
          /\ ~(entries[i].content.readable /\ entries[i].content.parses)
          /\ ManifestStepDone(i) )
        => /\ walkResult # "Err"
           /\ Len(repo.dependencies) =
                Cardinality({j \in counted : is_cargo_toml(entries[j]) /\ ManifestStepDone(j)})

\* C3: a .rs file that cannot be read or parsed is left out of files and the
\* walk continues: once the loop is past it, walk_repo has not returned an
\* error.
C3_BadSourceDoesNotAbort ==
    \A i \in counted :
        ( /\ IsRustFile(i)
          /\ ~(entries[i].content.readable /\ entries[i].content.parses)
          /\ SourceStepDone(i) )
        => /\ walkResult # "Err"
           /\ Len(repo.files) = Len(Analyzed)

\* C4: a counted file whose extension is not rs is only counted: once the
\* loop is past it the process has not panicked and files holds no record
\* for it.
C4_UnsupportedLanguageIsNoPanic ==
    \A i \in counted :
        (~IsRustFile(i) /\ SourceStepDone(i)) =>
            exit # "panic_todo" /\ Len(repo.files) = Len(Analyzed)

\* C5: walk_repo never returns a model for a root that is missing or is not
\* a directory.
C5_InvalidRootIsFatal ==
    walkResult = "Ok" => root[1].kind = "dir"

\* C6: in a returned model the language counts add up to the number of files
\* that survive the path filter (own name and every ancestor) and have an
\* extension.
C6_CountsSumToSurvivingFiles ==
    walkResult = "Ok" =>
        SumValues(repo.languages) =
            Cardinality({i \in DOMAIN entries :
                            /\ entries[i].kind = "file"
                            /\ Survives(i)
                            /\ HasExtension(i)})

\* C7: the source-analysis branch is never evaluated for a file that was
\* recognized as a manifest.
C7_ManifestSkipsSourceAnalysis ==
    pc = "source" => ~is_cargo_toml(entries[cur])

\* C8: every FileInformation in files holds exactly the names of the fn,
\* struct, enum, const and static items at the top level of its file, and no
\* name that is declared only inside another item.
C8_OnlyTopLevelDeclarations ==
    /\ Len(repo.files) = Len(Analyzed)
    /\ \A k \in DOMAIN repo.files :
          LET items == entries[Analyzed[k]].content.items
              info == repo.files[k]
          IN  /\ DOMAIN info.functions = TopLevelNames(items, {"Fn"})
              /\ DOMAIN info.structs = TopLevelNames(items, {"Struct"})
              /\ DOMAIN info.enums = TopLevelNames(items, {"Enum"})
              /\ Range(info.variables) = TopLevelNames(items, {"Const", "Static"})
              /\ RecordNames(info) \cap NestedOnlyNames(items, DeclKinds) = {}

\* C8 witness: a file with declarations nested in a function body, an impl
\* and a module has been analysed and its record pushed.
C8_Witness ==
    \E k \in DOMAIN repo.files :
        /\ k <= Len(Analyzed)
        /\ NestedOnlyNames(entries[Analyzed[k]].content.items, DeclKinds) # {}
        /\ DOMAIN repo.files[k].functions # {}

\* C9: a file's language count is incremented only once its manifest parse
\* or source analysis has completed, and not when that parse failed.
C9_CountedOnlyAfterParse ==
    \A i \in counted : SourceStepDone(i) /\ ~(i = cur /\ walkResult = "Err")

ExitsBeforeWrite ==
    {"usage", "prompt_err", "request_err", "decode_err", "empty_response",
     "panic_api_key", "panic_todo"}

\* C10 (as stated): README.md is written at most once, only after the walk,
\* the prompt and the API call succeeded with a candidate, and a run that
\* ends with a missing argument, a walk error, a failed request, an empty
\* response or any panic leaves README.md untouched.
C10_AnyPanicLeavesReadmeUntouched ==
    /\ readmeWrites <= 1
    /\ readmeWrites = 1 =>
          /\ walkResult = "Ok"
          /\ prompt # None
          /\ response # None
          /\ FirstPart(response[1]) # None
    /\ exit \in ExitsBeforeWrite \cup {"panic_println"} =>
          readmeWrites = 0 /\ readme \in {OldReadme, NoReadme}

\* C10 (amended): README.md is written at most once, only after the walk,
\* the prompt and the API call succeeded with a candidate that has a part;
\* a run that ends with a missing argument, a walk error, a failed request,
\* an undecodable or empty response, or a panic raised before the write
\* (no API key, todo!() in the walk) leaves README.md untouched.
C10_ReadmeWrittenOnceAfterSuccess ==
    /\ readmeWrites <= 1
    /\ readmeWrites = 1 =>
          /\ walkResult = "Ok"
          /\ prompt # None
          /\ response # None
          /\ response[1].candidates # <<>>
          /\ response[1].candidates[1].content.parts # <<>>
          /\ markdown = Some(response[1].candidates[1].content.parts[1])
    /\ exit \in ExitsBeforeWrite =>
          readmeWrites = 0 /\ readme \in {OldReadme, NoReadme}

\* C10 witness: a run that ended well, with README.md holding the first
\* part of the first candidate.
C10_Witness ==
    /\ exit = "ok"
    /\ readmeWrites = 1
    /\ readme = [exists |-> TRUE, content |-> markdown[1]]

====
